---- MODULE Spec2Model ----
(***************************************************************************)
(* State-machine model of TftpServer (src/src/TftpServer.cpp, .h): the     *)
(* host loop (checkForPacket + processRequest), the read transaction       *)
(* (handleReadRequest) and the write transaction (handleWriteRequest).     *)
(* Bytes are 0..255, words are 16 bit, the scratch buffer udpBuffer is an  *)
(* array of 516 bytes shared by receive and transmit.  Time is abstract:   *)
(* the retransmission timer may expire whenever no packet is pending, and  *)
(* the round-trip sample of an accepted ACK is drawn from a small set.     *)
(* m_rtt (a float in the source) is kept in microseconds.                  *)
(***************************************************************************)
EXTENDS Integers, Sequences, FiniteSets, TLC

\* ------------------------------------------------------------ constants
INITIAL_TIMEOUT == 50
TIMEOUT_MIN == 50
TIMEOUT_MAX == 10000
MAX_RETRANSMISSIONS == 8
UDP_BUFFER_SIZE == 516
\* payload bytes of a full DATA block (the literal 512 of the source)
DATA_SIZE == 512
\* uint16_t arithmetic (m_blockNumber, m_blockSize)
WORD == 65536

RRQ == 1
WRQ == 2
DATA == 3
ACK == 4
ERROR == 5

NOT_DEFINED == 0
FILE_NOT_FOUND == 1
ACCESS_VIOLATION == 2
ILLEGAL_OPERATION == 4
UNKNOWN_ID == 5
FILE_EXISTS == 6

CR == 13
LF == 10
NUL == 0
\* File::peek() at end of file, File::read() on a closed file
EOF == -1

m_errorFileNotFound == <<102, 105, 108, 101, 32, 110, 111, 116, 32, 102, 111, 117, 110, 100>>
m_errorAccessViolation == <<97, 99, 99, 101, 115, 115, 32, 118, 105, 111, 108, 97, 116, 105, 111, 110>>
m_errorIllegalOperation == <<105, 108, 108, 101, 103, 97, 108, 32, 116, 102, 116, 112, 32, 111, 112, 101, 114, 97, 116, 105, 111, 110>>
m_errorUnknownTransferId == <<117, 110, 107, 110, 111, 119, 110, 32, 116, 114, 97, 110, 115, 102, 101, 114, 32, 105, 100>>
m_errorFileAlreadyExists == <<102, 105, 108, 101, 32, 97, 108, 114, 101, 97, 100, 121, 32, 101, 120, 105, 115, 116, 115>>
m_errorTimeoutOnSend == <<116, 105, 109, 101, 111, 117, 116, 32, 111, 110, 32, 115, 101, 110, 100>>

\* the mode strings the source compares with
OCTET == <<79, 67, 84, 69, 84>>
NETASCII == <<78, 69, 84, 65, 83, 67, 73, 73>>

\* ------------------------------------------------------------ bounds
\* packets other than the awaited one that the environment injects
MaxNoise == 1
\* bytes of a file after its run of plain bytes
MaxTail == 3
\* cap on the blocks of one transaction (reading a closed file never ends)
MaxBlocks == 3
\* cap on the blocks taken in a write transaction under all its traffic
MaxWriteBlocks == 2

\* ------------------------------------------------------------ inputs
\* a plain byte of a file ('A') and of a packet
PlainByte == 65
\* the two senders: the client that opens the transaction and a third party
Client == [ip |-> 1, port |-> 1000]
Stranger == [ip |-> 2, port |-> 2000]
Senders == {Client, Stranger}

\* file names: "f" is on the card, "g" is not
NameF == <<102>>
NameG == <<103>>
\* modes as sent by clients
ModeOctetLower == <<111, 99, 116, 101, 116>>
ModeNetasciiMixed == <<78, 101, 116, 65, 115, 99, 105, 105>>
ModeMail == <<109, 97, 105, 108>>

\* ------------------------------------------------------------ files
\* A file is a run of `pad` plain bytes followed by the bytes of `tail`.
FileLen(f) == f.pad + Len(f.tail)

\* byte i (1-based) of a file
FileByte(f, i) == IF i <= f.pad THEN PlainByte ELSE f.tail[i - f.pad]

\* File::peek(): the byte at read position pos (bytes consumed), or EOF;
\* EOF too when the file is not open
Peek(file, f) ==
  IF file.open /\ file.pos < FileLen(f) THEN FileByte(f, file.pos + 1) ELSE EOF

RECURSIVE SeqsUpTo(_, _)
SeqsUpTo(S, n) ==
  IF n = 0 THEN {<<>>}
  ELSE LET T == SeqsUpTo(S, n - 1)
       IN T \cup {Append(t, b) : t \in {u \in T : Len(u) = n - 1}, b \in S}

\* ------------------------------------------------------------ state
VARIABLES
  pc,                         \* "idle" | "read" | "write" | "done": where the host is
  udpBuffer,                  \* the 516-byte scratch buffer; udpBuffer[i] of the
                              \* source is element i + 1 of this sequence
  m_bufferCount,              \* result of the last receivePacket
  tftpRemote,                 \* m_tftp.remoteIP() / m_tftp.remotePort()
  m_remoteIpAddress,
  m_remotePort,
  m_transferId,
  m_opCode,
  m_blockNumber,
  m_blockSize,
  m_rtt,                      \* microseconds
  m_timeout,                  \* milliseconds
  m_numberOfRetransmissions,
  m_fileName,
  m_transferMode,
  m_file,                     \* [open, pos]: the open flag and read position
  disk,                       \* the card: file name -> file
  loc,                        \* the locals of handleReadRequest / handleWriteRequest
  \* history of the transaction (not program state)
  peer,                       \* the sender of the opening datagram
  request,                    \* the opcode of the opening datagram
  tx,                         \* the packets sent by the last step, in order
  rx,                         \* the datagram the last step received, if any
  lastOp,                     \* the last step taken
  firstTx,                    \* the first transmission of the current block
  nFirst,                     \* number of first transmissions of DATA blocks
  ackSeen,                    \* a whole ACK for the current block came in since firstTx
  cnt,                        \* sent so far: any DATA, the ACKs, the ERRORs per code
  wr,                         \* write transaction: the payloads of the accepted DATA
                              \* blocks joined, the block numbers written and the
                              \* numbers of the ACKs sent, in order
  noise                       \* injected packets so far

progVars == <<pc, udpBuffer, m_bufferCount, tftpRemote, m_remoteIpAddress, m_remotePort,
              m_transferId, m_opCode, m_blockNumber, m_blockSize, m_rtt, m_timeout,
              m_numberOfRetransmissions, m_fileName, m_transferMode, m_file, disk, loc>>
histVars == <<peer, request, tx, rx, lastOp, firstTx, nFirst, ackSeen, cnt, wr, noise>>
vars == <<progVars, histVars>>

\* ------------------------------------------------------------ wire codec
Min(a, b) == IF a < b THEN a ELSE b
\* the bytes of the buffer from source index i to its end
BufferFrom(buf, i) == SubSeq(buf, i + 1, UDP_BUFFER_SIZE)
Hi(w) == (w \div 256) % 256
Lo(w) == w % 256

\* UDP::receivePacket(udpBuffer, 516): the datagram overwrites the head of the buffer
ReceiveInto(buf, pkt) == pkt \o BufferFrom(buf, Len(pkt))

\* readWord() at buffer position p
readWord(buf, p) == buf[p + 1] * 256 + buf[p + 2]

\* readText() at buffer position p: the bytes up to the next zero byte, and the
\* position after that zero
RECURSIVE readTextFrom(_, _, _)
readTextFrom(buf, p, acc) ==
  IF p >= UDP_BUFFER_SIZE \/ buf[p + 1] = 0 THEN [text |-> acc, pos |-> p + 1]
  ELSE readTextFrom(buf, p + 1, Append(acc, buf[p + 1]))

readText(buf, p) == readTextFrom(buf, p, <<>>)

\* toupper() over the first ten characters of the mode
ToUpperMode(s) ==
  [i \in 1 .. Len(s) |-> IF i <= 10 /\ s[i] \in 97 .. 122 THEN s[i] - 32 ELSE s[i]]

\* the first four bytes every send writes
PutHeader(buf, op, num) == <<Hi(op), Lo(op), Hi(num), Lo(num)>> \o BufferFrom(buf, 4)

\* the buffer after sendError() wrote opcode, code, message and the final 0
ErrorBuffer(buf, code, msg) ==
  <<Hi(ERROR), Lo(ERROR), Hi(code), Lo(code)>> \o msg \o <<0>> \o BufferFrom(buf, 5 + Len(msg))

\* a datagram: len bytes; bytes holds them as far as the buffer (or the sender) has
\* them, a send of more than 516 bytes reads on behind the buffer
Packet(dst, len, buf) ==
  [dst |-> dst, len |-> len, bytes |-> SubSeq(buf, 1, Min(len, Len(buf)))]
ErrorPacket(dst, code, msg, buf) == Packet(dst, 5 + Len(msg), ErrorBuffer(buf, code, msg))

\* a received datagram
Datagram(src, pkt) == [src |-> src, len |-> Len(pkt), bytes |-> pkt]

\* what a sent or received datagram is on the wire
PktOp(p) == readWord(p.bytes, 0)
PktNum(p) == readWord(p.bytes, 2)
IsData(p) == p.len >= 4 /\ PktOp(p) = DATA
IsAck(p) == p.len >= 4 /\ PktOp(p) = ACK
IsError(p, code) == p.len >= 5 /\ PktOp(p) = ERROR /\ PktNum(p) = code
\* an ERROR with this code and this message, and nothing else
IsErrorWith(p, code, msg) ==
  IsError(p, code) /\ p.len = 5 + Len(msg) /\ SubSeq(p.bytes, 5, Len(p.bytes)) = msg \o <<0>>
\* the payload of a DATA packet
Payload(p) == SubSeq(p.bytes, 5, Len(p.bytes))
\* two datagrams carry the same bytes
SameBytes(p, q) == p.len = q.len /\ p.bytes = q.bytes

\* datagrams as clients build them
AckBytes(k) == <<0, ACK, Hi(k), Lo(k)>>
RequestBytes(op, name, mode) == <<0, op>> \o name \o <<0>> \o mode \o <<0>>

\* ------------------------------------------------------------ timer
constrain(x, lo, hi) == IF x < lo THEN lo ELSE IF x > hi THEN hi ELSE x

\* updateTimeout(): the new m_rtt (microseconds) for a sample in milliseconds
NewRtt(rtt, sample) == (9 * rtt + sample * 1000) \div 10
\* updateTimeout(): the new m_timeout
NewTimeout(rtt) == constrain((2 * rtt) \div 1000, TIMEOUT_MIN, TIMEOUT_MAX)
\* a back-off that only doubles (a variant of BackOff, used to show that C22
\* depends on the constrain after the doubling)
BackOffUnclamped(t) == 2 * t

\* the back-off of the timeout branch
BackOff(t) == constrain(2 * t, TIMEOUT_MIN, TIMEOUT_MAX)

\* ------------------------------------------------------------ block building
\* a read that returns at most 511 bytes (a variant of OctetReadSize, used to
\* show that C5 depends on the size of the read)
OctetReadSizeShort(file, f) ==
  IF ~file.open THEN (EOF) % WORD
  ELSE IF FileLen(f) - file.pos < DATA_SIZE - 1 THEN FileLen(f) - file.pos ELSE DATA_SIZE - 1

\* m_file.read(&udpBuffer[4], 512) stored in the uint16_t m_blockSize:
\* the bytes left up to 512, or -1 (65535) when the file is not open
OctetReadSize(file, f) ==
  IF ~file.open THEN (EOF) % WORD
  ELSE IF FileLen(f) - file.pos < DATA_SIZE THEN FileLen(f) - file.pos ELSE DATA_SIZE

\* the NETASCII loop of handleReadRequest; st = [out, pos, nl, nul, dicr, brk]:
\* bytes emitted into the block, read position, startNextPacketWithNewLine,
\* startNextPacketWithNull, dontInsertCarriageReturn, left by break
\* A run of plain bytes goes through the last branch byte by byte; the run is
\* taken in one step here.
RECURSIVE NetasciiLoop(_, _, _)
NetasciiLoop(st, open, f) ==
  LET here == Peek([open |-> open, pos |-> st.pos], f)
      next == Peek([open |-> open, pos |-> st.pos + 1], f)
      read == [st EXCEPT !.pos = st.pos + 1]
      full == Len(st.out) + 1 = DATA_SIZE
      run == IF open /\ st.pos < f.pad
               THEN Min(f.pad - st.pos, DATA_SIZE - Len(st.out)) ELSE 0
  IN IF st.brk \/ Len(st.out) >= DATA_SIZE \/ here = EOF THEN st
     ELSE IF run > 0
       THEN NetasciiLoop([st EXCEPT !.pos = st.pos + run,
                                    !.out = st.out \o [i \in 1 .. run |-> PlainByte]],
                         open, f)
     ELSE IF here = CR /\ next = LF
       THEN NetasciiLoop([read EXCEPT !.dicr = TRUE, !.out = Append(st.out, here)], open, f)
     ELSE IF here = LF /\ ~st.dicr
       THEN IF full
            THEN [read EXCEPT !.out = Append(st.out, CR), !.nl = TRUE, !.brk = TRUE]
            ELSE NetasciiLoop([read EXCEPT !.out = st.out \o <<CR, LF>>], open, f)
     ELSE IF here = CR /\ next # LF
       THEN IF full
            THEN [read EXCEPT !.out = Append(st.out, CR), !.nul = TRUE, !.brk = TRUE]
            ELSE NetasciiLoop([read EXCEPT !.out = st.out \o <<CR, NUL>>], open, f)
     ELSE NetasciiLoop([read EXCEPT !.out = Append(st.out, here)], open, f)

\* one NETASCII block: the carried byte first, then the loop
NetasciiBlock(l, file, f) ==
  LET head == IF l.startNextPacketWithNewLine THEN <<LF>>
              ELSE IF l.startNextPacketWithNull THEN <<NUL>> ELSE <<>>
  IN NetasciiLoop([out |-> head, pos |-> file.pos,
                   nl |-> FALSE,
                   nul |-> IF l.startNextPacketWithNewLine THEN l.startNextPacketWithNull
                           ELSE FALSE,
                   dicr |-> l.dontInsertCarriageReturn, brk |-> FALSE],
                  file.open, f)

\* the buffer with payload bytes written from index 4 on
WithPayload(buf, out) == SubSeq(buf, 1, 4) \o out \o BufferFrom(buf, 4 + Len(out))

\* a full block of plain bytes
PlainBlock == [i \in 1 .. DATA_SIZE |-> PlainByte]
\* the n bytes of a file behind read position pos
FileBytes(f, pos, n) ==
  IF n = DATA_SIZE /\ pos + n <= f.pad THEN PlainBlock
  ELSE [i \in 1 .. n |-> FileByte(f, pos + i)]

\* the buffer after an OCTET read of n bytes at read position pos
WithFileBytes(buf, f, pos, n) == WithPayload(buf, FileBytes(f, pos, n))

\* the block number after m_blockNumber++
NextBlockNumber(b) == (b + 1) % WORD

\* a test that also takes the ACK of an earlier block (a variant of AckMatches,
\* used to show that C8 depends on the test)
AckAtMost(ackBlockNumber, b) == ackBlockNumber <= b

\* the ACK test of handleReadRequest
AckMatches(ackBlockNumber, b) == ackBlockNumber = b

\* ------------------------------------------------------------ helpers of the steps
\* round-trip samples, milliseconds; a step that takes no sample is given the first
FirstSample == 10
Samples == {FirstSample, 400}

NoFile == [pad |-> 0, tail |-> <<>>]
\* the file m_file stands for
CurFile == IF m_fileName \in DOMAIN disk THEN disk[m_fileName] ELSE NoFile

ZeroBuffer == [i \in 1 .. UDP_BUFFER_SIZE |-> 0]
NoPacket == Packet([ip |-> 0, port |-> 0], 0, <<>>)
NoDatagram == Datagram([ip |-> 0, port |-> 0], <<>>)
NoLocals ==
  [sendData |-> FALSE, receivedFinalAck |-> FALSE, transferComplete |-> FALSE,
   ignoreTime |-> FALSE, startNextPacketWithNewLine |-> FALSE,
   startNextPacketWithNull |-> FALSE, dontInsertCarriageReturn |-> FALSE]
ErrCodes == 0 .. 7
NoCount == [data |-> FALSE, ack |-> 0, err |-> [k \in ErrCodes |-> 0]]
NoWrites == [payloads |-> <<>>, blocks |-> <<>>, acks |-> <<>>]

\* the counts after the packets ps went out
Tally(c, ps) ==
  [data |-> c.data \/ (\E i \in DOMAIN ps : IsData(ps[i])),
   ack |-> c.ack + Cardinality({i \in DOMAIN ps : IsAck(ps[i])}),
   err |-> [k \in ErrCodes |-> c.err[k] + Cardinality({i \in DOMAIN ps : IsError(ps[i], k)})]]

\* the destination of every send that names none
Remote == [ip |-> m_remoteIpAddress, port |-> m_remotePort]

\* ------------------------------------------------------------ Init
InitWith(files) ==
  /\ pc = "idle"
  /\ udpBuffer = ZeroBuffer
  /\ m_bufferCount = 0
  /\ tftpRemote = [ip |-> 0, port |-> 0]
  /\ m_remoteIpAddress = 0
  /\ m_remotePort = 0
  /\ m_transferId = 0
  /\ m_opCode = 0
  /\ m_blockNumber = 0
  /\ m_blockSize = 0
  /\ m_rtt = 0
  /\ m_timeout = 0
  /\ m_numberOfRetransmissions = 0
  /\ m_fileName = <<>>
  /\ m_transferMode = <<>>
  /\ m_file = [open |-> FALSE, pos |-> 0]
  /\ disk \in {[n \in {NameF} |-> f] : f \in files}
  /\ loc = NoLocals
  /\ peer = [ip |-> 0, port |-> 0]
  /\ request = 0
  /\ tx = <<>>
  /\ rx = NoDatagram
  /\ lastOp = "init"
  /\ firstTx = NoPacket
  /\ nFirst = 0
  /\ ackSeen = FALSE
  /\ cnt = NoCount
  /\ wr = NoWrites
  /\ noise = 0

\* ------------------------------------------------------------ the opening request
\* m_file.close() left out (a variant of Closed, used to show that C15 depends
\* on the calls of close)
NotClosed(file) == file

\* m_file.close()
Closed(file) == [file EXCEPT !.open = FALSE]

\* a prologue that takes a WRQ for a file that is on the card (a variant of
\* FirstError, used to show that C11 depends on the test for the file)
FirstErrorOverwrite(op, exists, openOk) ==
  IF op = RRQ
    THEN (IF exists THEN (IF openOk THEN -1 ELSE ACCESS_VIOLATION) ELSE FILE_NOT_FOUND)
  ELSE IF op = WRQ
    THEN (IF openOk THEN -1 ELSE ACCESS_VIOLATION)
  ELSE ILLEGAL_OPERATION

\* a prologue that drops a first packet that is no request without an answer (a
\* variant of FirstError, used to show that C14 depends on the last branch)
FirstErrorSilent(op, exists, openOk) ==
  IF op = RRQ
    THEN (IF exists THEN (IF openOk THEN -1 ELSE ACCESS_VIOLATION) ELSE FILE_NOT_FOUND)
  ELSE IF op = WRQ
    THEN (IF exists THEN FILE_EXISTS ELSE IF openOk THEN -1 ELSE ACCESS_VIOLATION)
  ELSE -1

\* the error the prologue of a transaction sends, or -1: processRequest for an
\* opcode that is no request, handleReadRequest and handleWriteRequest for the file
FirstError(op, exists, openOk) ==
  IF op = RRQ
    THEN (IF exists THEN (IF openOk THEN -1 ELSE ACCESS_VIOLATION) ELSE FILE_NOT_FOUND)
  ELSE IF op = WRQ
    THEN (IF exists THEN FILE_EXISTS ELSE IF openOk THEN -1 ELSE ACCESS_VIOLATION)
  ELSE ILLEGAL_OPERATION

\* checkForPacket() returning true in the host loop, then processRequest() up to
\* the first iteration of the transaction's loop (or its return).
\* openOk: whether SdFat opens the file.
Start(src, pkt, openOk) ==
  /\ pc = "idle"
  /\ LET buf0 == ReceiveInto(udpBuffer, pkt)
         op == readWord(buf0, 0)
         name == readText(buf0, 2)
         mode == readText(buf0, name.pos)
         exists == name.text \in DOMAIN disk
         isReq == op = RRQ \/ op = WRQ
         \* the error the prologue sends, or -1
         err == FirstError(op, exists, openOk)
         msg == IF err = ACCESS_VIOLATION THEN m_errorAccessViolation
                ELSE IF err = FILE_NOT_FOUND THEN m_errorFileNotFound
                ELSE IF err = FILE_EXISTS THEN m_errorFileAlreadyExists
                ELSE m_errorIllegalOperation
         buf1 == IF err = -1 THEN buf0 ELSE ErrorBuffer(buf0, err, msg)
         errs == IF err = -1 THEN <<>> ELSE <<ErrorPacket(src, err, msg, buf0)>>
         \* RRQ goes on into its loop also after FILE_NOT_FOUND
         reads == op = RRQ /\ err # ACCESS_VIOLATION
         writes == op = WRQ /\ err = -1
         acks == IF writes THEN <<Packet(src, 4, PutHeader(buf1, ACK, 0))>> ELSE <<>>
     IN /\ openOk \/ (op = RRQ /\ exists) \/ (op = WRQ /\ ~exists)
        /\ udpBuffer' = IF writes THEN PutHeader(buf1, ACK, 0) ELSE buf1
        /\ m_bufferCount' = Len(pkt)
        /\ tftpRemote' = src
        /\ m_remoteIpAddress' = src.ip
        /\ m_remotePort' = src.port
        /\ m_timeout' = INITIAL_TIMEOUT
        /\ m_rtt' = INITIAL_TIMEOUT * 1000
        /\ m_opCode' = op
        /\ m_transferId' = IF isReq THEN src.port ELSE m_transferId
        /\ m_fileName' = IF isReq THEN name.text ELSE m_fileName
        /\ m_transferMode' = IF isReq THEN ToUpperMode(mode.text) ELSE m_transferMode
        /\ m_file' = IF (op = RRQ /\ exists /\ openOk) \/ writes
                       THEN [open |-> TRUE, pos |-> 0]
                     ELSE IF isReq /\ err = ACCESS_VIOLATION
                       THEN Closed([m_file EXCEPT !.pos = 0])
                     ELSE m_file
        /\ disk' = IF writes
                     THEN [n \in DOMAIN disk \cup {name.text} |->
                             IF n = name.text THEN NoFile ELSE disk[n]]
                   ELSE disk
        /\ m_blockNumber' = IF reads THEN 0 ELSE IF writes THEN 1 ELSE m_blockNumber
        /\ loc' = IF reads THEN [NoLocals EXCEPT !.sendData = TRUE] ELSE NoLocals
        /\ pc' = IF reads THEN "read" ELSE IF writes THEN "write" ELSE "done"
        /\ tx' = errs \o acks
        /\ cnt' = Tally(cnt, errs \o acks)
        /\ rx' = Datagram(src, pkt)
        /\ request' = op
        /\ wr' = IF writes THEN [wr EXCEPT !.acks = <<0>>] ELSE wr
  /\ peer' = src
  /\ lastOp' = "start"
  /\ UNCHANGED <<m_blockSize, m_numberOfRetransmissions, firstTx, nFirst, ackSeen, noise>>

\* ------------------------------------------------------------ read transaction
\* the end of an iteration of the loop of handleReadRequest: leave and close the
\* file once transferComplete and receivedFinalAck are both set
ReadLoopEnds(l) == l.transferComplete /\ l.receivedFinalAck

\* One iteration with sendData set: build the next block and send it.
\* cap bounds the blocks of a transaction; sendOk: whether a send of more bytes
\* than the buffer holds goes out; readOk: whether the card reads the open file
\* (File::read returns -1 when it does not).
RdSend(cap, sendOk, readOk) ==
  /\ pc = "read"
  /\ loc.sendData
  /\ nFirst < cap
  /\ readOk \/ (m_transferMode = OCTET /\ m_file.open)
  /\ lastOp' = IF readOk THEN "send" ELSE "readfail"
  /\ LET f == CurFile
         octet == m_transferMode = OCTET
         netascii == m_transferMode = NETASCII
         n == IF readOk THEN OctetReadSize(m_file, f) ELSE (EOF) % WORD
         st == NetasciiBlock(loc, m_file, f)
         size == IF octet THEN n ELSE IF netascii THEN Len(st.out) ELSE 0
         buf1 == IF octet THEN (IF m_file.open /\ readOk
                                  THEN WithFileBytes(udpBuffer, f, m_file.pos, n)
                                ELSE udpBuffer)
                 ELSE IF netascii THEN WithPayload(udpBuffer, st.out)
                 ELSE ErrorBuffer(udpBuffer, ILLEGAL_OPERATION, m_errorIllegalOperation)
         errs == IF octet \/ netascii THEN <<>>
                 ELSE <<ErrorPacket(Remote, ILLEGAL_OPERATION, m_errorIllegalOperation,
                                    udpBuffer)>>
         blk == NextBlockNumber(m_blockNumber)
         buf2 == PutHeader(buf1, DATA, blk)
         data == Packet(Remote, 4 + size, buf2)
         sent == IF 4 + size > UDP_BUFFER_SIZE /\ ~sendOk THEN <<>> ELSE <<data>>
     IN /\ sendOk \/ 4 + size > UDP_BUFFER_SIZE
        /\ m_blockSize' = size
        /\ udpBuffer' = buf2
        /\ m_file' = IF octet /\ m_file.open /\ readOk
                       THEN [m_file EXCEPT !.pos = m_file.pos + n]
                     ELSE IF netascii THEN [m_file EXCEPT !.pos = st.pos]
                     ELSE m_file
        /\ m_blockNumber' = blk
        /\ loc' = [loc EXCEPT
                     !.transferComplete = IF size < DATA_SIZE THEN TRUE ELSE @,
                     !.startNextPacketWithNewLine = IF netascii THEN st.nl ELSE @,
                     !.startNextPacketWithNull = IF netascii THEN st.nul ELSE @,
                     !.dontInsertCarriageReturn = IF netascii THEN st.dicr ELSE @,
                     !.sendData = FALSE,
                     !.ignoreTime = FALSE]
        /\ tx' = errs \o sent
        /\ cnt' = Tally(cnt, errs \o sent)
        /\ firstTx' = data
  /\ m_numberOfRetransmissions' = 0
  /\ nFirst' = nFirst + 1
  /\ ackSeen' = FALSE
  /\ rx' = NoDatagram
  /\ UNCHANGED <<pc, m_bufferCount, tftpRemote, m_remoteIpAddress, m_remotePort,
                 m_transferId, m_opCode, m_rtt, m_timeout, m_fileName, m_transferMode,
                 disk, peer, request, wr, noise>>

\* a test that stops the RTT clock on every accepted ACK (a variant of
\* TakesSample, used to show that C21 depends on the flag)
TakesSampleAlways(accept, ignoreTime) == accept

\* whether the accepted ACK stops the RTT clock: if (!ignoreTime) under the test
\* of the block number
TakesSample(accept, ignoreTime) == accept /\ ~ignoreTime

\* the datagram a step waits for: a whole ACK of the current block from the peer
Awaited(src, pkt) == src = peer /\ pkt = AckBytes(m_blockNumber)

\* One iteration with sendData clear and a datagram pending: checkForPacket()
\* returns true.  sample: the milliseconds since the block's first transmission.
\* counted: whether the environment counts a packet that is not the awaited one
\* among its MaxNoise faults.
RdPacket(src, pkt, sample, counted) ==
  /\ pc = "read"
  /\ ~loc.sendData
  /\ (counted /\ ~Awaited(src, pkt)) => noise < MaxNoise
  /\ LET buf0 == ReceiveInto(udpBuffer, pkt)
         \* checkForPacket() has copied the sender into m_remoteIpAddress, m_remotePort
         remotePort == src.port
         unknown == remotePort # src.port
         op == readWord(buf0, 0)
         ackBlockNumber == readWord(buf0, 2)
         accept == ~unknown /\ op = ACK /\ AckMatches(ackBlockNumber, m_blockNumber)
         timed == TakesSample(accept, loc.ignoreTime)
         errs == IF unknown
                   THEN <<ErrorPacket(src, UNKNOWN_ID, m_errorUnknownTransferId, buf0)>>
                 ELSE <<>>
         l == [loc EXCEPT !.sendData = IF accept THEN TRUE ELSE @,
                          !.receivedFinalAck =
                             IF accept /\ loc.transferComplete THEN TRUE ELSE @]
     IN /\ timed \/ sample = FirstSample
        /\ udpBuffer' = IF unknown
                          THEN ErrorBuffer(buf0, UNKNOWN_ID, m_errorUnknownTransferId)
                        ELSE buf0
        /\ m_opCode' = IF unknown THEN m_opCode ELSE op
        /\ m_rtt' = IF timed THEN NewRtt(m_rtt, sample) ELSE m_rtt
        /\ m_timeout' = IF timed THEN NewTimeout(NewRtt(m_rtt, sample)) ELSE m_timeout
        /\ loc' = l
        /\ pc' = IF ReadLoopEnds(l) THEN "done" ELSE "read"
        /\ m_file' = IF ReadLoopEnds(l) THEN Closed(m_file) ELSE m_file
        /\ tx' = errs
        /\ cnt' = Tally(cnt, errs)
        /\ rx' = Datagram(src, pkt)
        /\ ackSeen' = (ackSeen \/ (Len(pkt) >= 4 /\ op = ACK /\ ackBlockNumber = m_blockNumber))
  /\ m_bufferCount' = Len(pkt)
  /\ tftpRemote' = src
  /\ m_remoteIpAddress' = src.ip
  /\ m_remotePort' = src.port
  /\ noise' = IF counted /\ ~Awaited(src, pkt) THEN noise + 1 ELSE noise
  /\ lastOp' = "recv"
  /\ UNCHANGED <<m_transferId, m_blockNumber, m_blockSize, m_numberOfRetransmissions,
                 m_fileName, m_transferMode, disk, peer, request, firstTx, nFirst, wr>>

\* the same with every packet that is not the awaited one counted
RdRecv(src, pkt, sample) == RdPacket(src, pkt, sample, TRUE)

\* One iteration with sendData clear, no datagram pending and the timer expired:
\* re-send, back off, give up at MAX_RETRANSMISSIONS.
\* sendOk: whether a send of more bytes than the buffer holds goes out.
\* counted: whether the environment counts the lost ACK among its MaxNoise faults.
RdTimeout(sendOk, counted) ==
  /\ pc = "read"
  /\ ~loc.sendData
  /\ counted => noise < MaxNoise
  /\ noise' = IF counted THEN noise + 1 ELSE noise
  /\ LET buf1 == PutHeader(udpBuffer, DATA, m_blockNumber)
         data == Packet(Remote, 4 + m_blockSize, buf1)
         sent == IF 4 + m_blockSize > UDP_BUFFER_SIZE /\ ~sendOk THEN <<>> ELSE <<data>>
         retrans == (m_numberOfRetransmissions + 1) % 256
         giveUp == retrans >= MAX_RETRANSMISSIONS
         errs == IF giveUp
                   THEN <<ErrorPacket(Remote, NOT_DEFINED, m_errorTimeoutOnSend, buf1)>>
                 ELSE <<>>
         l == [loc EXCEPT !.ignoreTime = TRUE,
                          !.sendData = IF giveUp THEN FALSE ELSE @,
                          !.receivedFinalAck = IF giveUp THEN TRUE ELSE @,
                          !.transferComplete = IF giveUp THEN TRUE ELSE @]
     IN /\ sendOk \/ 4 + m_blockSize > UDP_BUFFER_SIZE
        /\ udpBuffer' = IF giveUp THEN ErrorBuffer(buf1, NOT_DEFINED, m_errorTimeoutOnSend)
                        ELSE buf1
        /\ m_numberOfRetransmissions' = retrans
        /\ m_timeout' = BackOff(m_timeout)
        /\ loc' = l
        /\ pc' = IF ReadLoopEnds(l) THEN "done" ELSE "read"
        /\ m_file' = IF ReadLoopEnds(l) THEN Closed(m_file) ELSE m_file
        /\ tx' = sent \o errs
        /\ cnt' = Tally(cnt, sent \o errs)
  /\ m_bufferCount' = 0
  /\ rx' = NoDatagram
  /\ lastOp' = "timeout"
  /\ UNCHANGED <<tftpRemote, m_remoteIpAddress, m_remotePort, m_transferId, m_opCode,
                 m_blockNumber, m_blockSize, m_rtt, m_fileName, m_transferMode, disk,
                 peer, request, firstTx, nFirst, ackSeen, wr>>

\* ------------------------------------------------------------ write transaction
\* a test that also takes an earlier block again (a variant of DataMatches, used
\* to show that C18 depends on the test)
DataAtMost(expected, blockNumber) == blockNumber <= expected

\* the test of the block number of a DATA packet in handleWriteRequest
DataMatches(expected, blockNumber) == expected = blockNumber

\* the test for the last DATA block, made on the length of the datagram
WriteIsLast(count) == count >= 0 /\ count < DATA_SIZE

\* the count bytes m_file.write(&udpBuffer[4], count) takes: the buffer from index
\* 4 on and, past the end of the buffer, the bytes `beyond` that lie behind it
WriteBytes(buf, count, beyond) ==
  LET inside == Min(count, UDP_BUFFER_SIZE - 4)
  IN SubSeq(buf, 5, 4 + inside) \o SubSeq(beyond, 1, count - inside)

\* the file with bytes appended
Appended(f, bytes) == [f EXCEPT !.tail = f.tail \o bytes]

\* the bytes behind the buffer a step is given when it reads none of them
NoneBeyond == <<0, 0, 0, 0>>

\* the datagram a step of the write transaction waits for: DATA with the expected
\* block number from the peer
AwaitedData(src, pkt) ==
  src = peer /\ Len(pkt) >= 4 /\ readWord(pkt, 0) = DATA /\ readWord(pkt, 2) = m_blockNumber

\* One iteration of the loop of handleWriteRequest with a datagram pending:
\* checkForPacket() returns true.  writeOk: whether the card takes the write;
\* beyond: the four bytes that lie behind udpBuffer; cap bounds the blocks
\* taken (written or refused for the mode).
WrRecv(src, pkt, writeOk, beyond, cap) ==
  /\ pc = "write"
  /\ Len(wr.blocks) + cnt.err[ILLEGAL_OPERATION] < cap
  /\ AwaitedData(src, pkt) \/ noise < MaxNoise
  /\ LET buf0 == ReceiveInto(udpBuffer, pkt)
         count == Len(pkt)
         \* checkForPacket() has copied the sender into m_remoteIpAddress, m_remotePort
         remotePort == src.port
         unknown == remotePort # src.port
         op == readWord(buf0, 0)
         match == ~unknown /\ op = DATA /\ DataMatches(m_blockNumber, readWord(buf0, 2))
         known == m_transferMode = OCTET \/ m_transferMode = NETASCII
         last == match /\ WriteIsLast(count)
         failed == match /\ known /\ ~writeOk
         acked == match /\ known /\ writeOk
         illegal == match /\ ~known
         code == IF unknown THEN UNKNOWN_ID ELSE IF failed THEN ACCESS_VIOLATION
                 ELSE ILLEGAL_OPERATION
         msg == IF unknown THEN m_errorUnknownTransferId
                ELSE IF failed THEN m_errorAccessViolation ELSE m_errorIllegalOperation
         isErr == unknown \/ failed \/ illegal
         errs == IF isErr THEN <<ErrorPacket(src, code, msg, buf0)>> ELSE <<>>
         buf1 == IF isErr THEN ErrorBuffer(buf0, code, msg)
                 ELSE IF acked THEN PutHeader(buf0, ACK, m_blockNumber) ELSE buf0
         acks == IF acked THEN <<Packet(src, 4, buf1)>> ELSE <<>>
         ends == failed \/ last
         file1 == IF acked THEN [m_file EXCEPT !.pos = m_file.pos + count] ELSE m_file
     IN /\ writeOk \/ (match /\ known)
        /\ beyond = NoneBeyond \/ (match /\ known /\ count > UDP_BUFFER_SIZE - 4)
        /\ udpBuffer' = buf1
        /\ m_opCode' = IF unknown THEN m_opCode ELSE op
        /\ m_blockNumber' = IF acked THEN NextBlockNumber(m_blockNumber) ELSE m_blockNumber
        /\ disk' = IF acked
                     THEN [disk EXCEPT ![m_fileName] = Appended(@, WriteBytes(buf0, count, beyond))]
                   ELSE disk
        /\ m_file' = IF ends THEN Closed(file1) ELSE file1
        /\ loc' = [loc EXCEPT !.transferComplete = IF last THEN TRUE ELSE @]
        /\ pc' = IF ends THEN "done" ELSE "write"
        /\ tx' = errs \o acks
        /\ cnt' = Tally(cnt, errs \o acks)
        /\ wr' = IF acked
                   THEN [payloads |-> wr.payloads \o SubSeq(pkt, 5, count),
                         blocks |-> Append(wr.blocks, m_blockNumber),
                         acks |-> Append(wr.acks, m_blockNumber)]
                 ELSE wr
  /\ rx' = Datagram(src, pkt)
  /\ m_bufferCount' = Len(pkt)
  /\ tftpRemote' = src
  /\ m_remoteIpAddress' = src.ip
  /\ m_remotePort' = src.port
  /\ noise' = IF AwaitedData(src, pkt) THEN noise ELSE noise + 1
  /\ lastOp' = "recv"
  /\ UNCHANGED <<m_transferId, m_blockSize, m_rtt, m_timeout, m_numberOfRetransmissions,
                 m_fileName, m_transferMode, peer, request, firstTx, nFirst, ackSeen>>

\* ------------------------------------------------------------ environment
TailBytes == {CR, LF, 66}
\* the files with a run of p plain bytes, p in pads, and a tail of at most n bytes
FilesOf(pads, n) == {[pad |-> p, tail |-> t] : p \in pads, t \in SeqsUpTo(TailBytes, n)}

Modes == {ModeOctetLower, ModeNetasciiMixed, ModeMail}
ReadRequests == {RequestBytes(RRQ, n, m) : n \in {NameF, NameG}, m \in Modes}

\* what may arrive while block b is outstanding: from the client its ACK, the ACK
\* of the block before, an ACK cut after the opcode and a repeated request; from
\* the third party an ACK of the block and a request
ReadInputs(b) ==
  {[src |-> Client, pkt |-> AckBytes(b)],
   [src |-> Client, pkt |-> AckBytes((b + WORD - 1) % WORD)],
   [src |-> Client, pkt |-> <<0, ACK>>],
   [src |-> Client, pkt |-> RequestBytes(RRQ, NameF, ModeOctetLower)],
   [src |-> Stranger, pkt |-> AckBytes(b)],
   [src |-> Stranger, pkt |-> RequestBytes(RRQ, NameF, ModeOctetLower)]}

\* DATA as a client builds it: block b with a payload of n bytes that tell the
\* block
DataBytes(b, n) == <<0, DATA, Hi(b), Lo(b)>> \o [i \in 1 .. n |-> PlainByte + (b % 8)]

\* payload lengths: empty, short, around the place where the datagram has 512
\* bytes, and full
WriteLens == {0, 10, DATA_SIZE - 5, DATA_SIZE - 4, DATA_SIZE - 1, DATA_SIZE}
\* what may lie behind the buffer
Beyonds == {NoneBeyond, <<1, 2, 3, 4>>}

WriteRequests == {RequestBytes(WRQ, n, m) : n \in {NameF, NameG}, m \in Modes}

\* what may arrive while block b is expected: from the client that block, the
\* block before it again, the request again, an ACK and a DATA cut after the
\* opcode; from the third party that block
WriteInputs(b) ==
  {[src |-> Client, pkt |-> DataBytes(b, n)] : n \in WriteLens} \cup
  {[src |-> Client, pkt |-> DataBytes((b + WORD - 1) % WORD, 10)],
   [src |-> Client, pkt |-> RequestBytes(WRQ, NameG, ModeOctetLower)],
   [src |-> Client, pkt |-> AckBytes(b)],
   [src |-> Client, pkt |-> <<0, DATA>>],
   [src |-> Stranger, pkt |-> DataBytes(b, 10)]}

\* ------------------------------------------------------------ specifications
Init == InitWith(FilesOf({0, DATA_SIZE}, 0))

Next ==
  \/ \E pkt \in ReadRequests \cup {AckBytes(0)}, openOk \in BOOLEAN : Start(Client, pkt, openOk)
  \/ \E sendOk \in BOOLEAN : RdSend(MaxBlocks, sendOk, TRUE)
  \/ \E in \in ReadInputs(m_blockNumber), sample \in Samples :
       RdRecv(in.src, in.pkt, sample)
  \/ \E sendOk \in BOOLEAN : RdTimeout(sendOk, FALSE)

Spec == Init /\ [][Next]_vars

\* Read transactions of a file that is on the card, in the two modes the server
\* knows, with the same traffic as Spec.
InitRead == InitWith(FilesOf({0, DATA_SIZE}, 0))

NextRead ==
  \/ \E m \in {ModeOctetLower, ModeNetasciiMixed} :
       Start(Client, RequestBytes(RRQ, NameF, m), TRUE)
  \/ RdSend(MaxBlocks, TRUE, TRUE)
  \/ \E in \in ReadInputs(m_blockNumber), sample \in Samples :
       RdRecv(in.src, in.pkt, sample)
  \/ RdTimeout(TRUE, FALSE)

SpecRead == InitRead /\ [][NextRead]_vars

\* OCTET reads of files whose length is around a multiple of the block size; the
\* environment's faults (lost ACKs and injected datagrams) are counted together.
InitOctet == InitWith(FilesOf({0, DATA_SIZE - 1, DATA_SIZE}, MaxTail))

NextOctet ==
  \/ Start(Client, RequestBytes(RRQ, NameF, ModeOctetLower), TRUE)
  \/ RdSend(MaxBlocks, TRUE, TRUE)
  \/ \E in \in ReadInputs(m_blockNumber) : RdRecv(in.src, in.pkt, FirstSample)
  \/ RdTimeout(TRUE, TRUE)

SpecOctet == InitOctet /\ [][NextOctet]_vars

\* NETASCII reads of files whose line ends lie around the end of a block.
InitNetascii == InitWith(FilesOf({0, DATA_SIZE - 3, DATA_SIZE - 2, DATA_SIZE - 1}, MaxTail))

NextNetascii ==
  \/ Start(Client, RequestBytes(RRQ, NameF, ModeNetasciiMixed), TRUE)
  \/ RdSend(MaxBlocks, TRUE, TRUE)
  \/ \E in \in ReadInputs(m_blockNumber) : RdRecv(in.src, in.pkt, FirstSample)
  \/ RdTimeout(TRUE, TRUE)

SpecNetascii == InitNetascii /\ [][NextNetascii]_vars

\* An OCTET read of a file of 65535 full blocks, which takes 65536 blocks, with a
\* client that acknowledges every block; lost ACKs are counted.
BigFile == [pad |-> (WORD - 1) * DATA_SIZE, tail |-> <<>>]
InitLong == InitWith({BigFile})

NextWrap ==
  \/ RdSend(WORD + 1, TRUE, TRUE)
  \/ RdRecv(Client, AckBytes(m_blockNumber), FirstSample)
  \/ RdTimeout(TRUE, TRUE)

NextLong ==
  \/ Start(Client, RequestBytes(RRQ, NameF, ModeOctetLower), TRUE)
  \/ NextWrap

\* the whole transfer, from the request on
SpecLong == InitLong /\ [][NextLong]_vars

\* The same transfer from the first transmission of block WrapStart on: the state
\* SpecLong is in when the blocks before it were acknowledged without loss (the
\* round-trip estimate has settled at the sample), see WrapStartReached.
WrapStart == WORD - 24
WrapStartState ==
  /\ pc = "read"
  /\ udpBuffer = <<Hi(DATA), Lo(DATA), Hi(WrapStart), Lo(WrapStart)>> \o PlainBlock
  /\ m_bufferCount = 4
  /\ tftpRemote = Client
  /\ m_remoteIpAddress = Client.ip
  /\ m_remotePort = Client.port
  /\ m_transferId = Client.port
  /\ m_opCode = ACK
  /\ m_blockNumber = WrapStart
  /\ m_blockSize = DATA_SIZE
  /\ m_rtt = FirstSample * 1000
  /\ m_timeout = TIMEOUT_MIN
  /\ m_numberOfRetransmissions = 0
  /\ m_fileName = NameF
  /\ m_transferMode = OCTET
  /\ m_file = [open |-> TRUE, pos |-> WrapStart * DATA_SIZE]
  /\ disk = [n \in {NameF} |-> BigFile]
  /\ loc = NoLocals
  /\ peer = Client
  /\ request = RRQ
  /\ tx = <<Packet(Client, UDP_BUFFER_SIZE, udpBuffer)>>
  /\ rx = NoDatagram
  /\ lastOp = "send"
  /\ firstTx = Packet(Client, UDP_BUFFER_SIZE, udpBuffer)
  /\ nFirst = WrapStart
  /\ ackSeen = FALSE
  /\ cnt = [NoCount EXCEPT !.data = TRUE]
  /\ wr = NoWrites
  /\ noise = 0

\* SpecLong reaches the state SpecWrap starts in (checked as an invariant of
\* SpecLong, which TLC finds violated)
WrapStartReached == ~WrapStartState

SpecWrap == WrapStartState /\ [][NextWrap]_vars

\* ------------------------------------------------------------ claims
\* the state of a transaction that a foreign or ignored datagram must leave alone
txnState == <<m_blockNumber, m_remoteIpAddress, m_remotePort, m_numberOfRetransmissions,
              m_timeout, m_rtt, m_file, m_blockSize, loc>>

\* C1: a datagram that arrives during a transaction from a port other than the
\* port of the opening request is answered by exactly one ERROR(UNKNOWN_ID) sent
\* to that port, and block number, peer address and port, retransmission counter,
\* timeout, file position and the pending flags stay as they were.
C1_UnknownIdAnswered ==
  [][(lastOp' = "recv" /\ rx'.src.port # peer.port)
       => /\ Len(tx') = 1
          /\ IsError(tx'[1], UNKNOWN_ID)
          /\ tx'[1].dst = rx'.src
          /\ UNCHANGED txnState]_vars

\* C2: every DATA, ACK and terminal ERROR of a transaction goes to the address and
\* port that sent the opening request, and the transfer id stays that port.
C2_SentToPeer ==
  (pc # "idle" /\ request \in {RRQ, WRQ}) =>
    /\ m_transferId = peer.port
    /\ \A i \in DOMAIN tx : ~IsError(tx[i], UNKNOWN_ID) => tx[i].dst = peer

\* C3: a re-sent DATA block carries the bytes of its first transmission: opcode,
\* block number and payload.
C3_ResendIdentical ==
  (lastOp = "timeout" /\ tx # <<>>) => IsData(tx[1]) /\ SameBytes(tx[1], firstTx)

\* C4: the retransmission counter never exceeds MAX_RETRANSMISSIONS and is 0 when
\* a new block has gone out; ERROR(NOT_DEFINED, "timeout on send") goes out once,
\* to the peer, in the step that re-sent the outstanding block for the
\* MAX_RETRANSMISSIONS-th time, nothing is sent after it and the transaction is over.
C4_GiveUpAfterBudget ==
  /\ m_numberOfRetransmissions <= MAX_RETRANSMISSIONS
  /\ lastOp = "send" => m_numberOfRetransmissions = 0
  /\ (pc = "read" /\ ~loc.sendData) => m_numberOfRetransmissions < MAX_RETRANSMISSIONS
  /\ cnt.err[NOT_DEFINED] <= 1
  /\ cnt.err[NOT_DEFINED] = 1 => pc = "done"
  /\ \A i \in DOMAIN tx :
       IsError(tx[i], NOT_DEFINED) =>
         /\ IsErrorWith(tx[i], NOT_DEFINED, m_errorTimeoutOnSend)
         /\ tx[i].dst = peer
         /\ i = Len(tx)
         /\ lastOp = "timeout"
         /\ m_numberOfRetransmissions = MAX_RETRANSMISSIONS

\* C4 without the destination of the ERROR: what the code keeps of C4 whoever
\* the last sender was
GiveUpAfterBudgetAnyDst ==
  /\ m_numberOfRetransmissions <= MAX_RETRANSMISSIONS
  /\ lastOp = "send" => m_numberOfRetransmissions = 0
  /\ (pc = "read" /\ ~loc.sendData) => m_numberOfRetransmissions < MAX_RETRANSMISSIONS
  /\ cnt.err[NOT_DEFINED] <= 1
  /\ cnt.err[NOT_DEFINED] = 1 => pc = "done"
  /\ \A i \in DOMAIN tx :
       IsError(tx[i], NOT_DEFINED) =>
         /\ IsErrorWith(tx[i], NOT_DEFINED, m_errorTimeoutOnSend)
         /\ i = Len(tx)
         /\ lastOp = "timeout"
         /\ m_numberOfRetransmissions = MAX_RETRANSMISSIONS

\* C7: a block after the first is transmitted for the first time only when, since
\* the first transmission of the block before it, a datagram of at least four
\* bytes with opcode ACK and that block's number has come in.
C7_LockStep ==
  [][(lastOp' = "send" /\ nFirst' >= 2) => ackSeen]_vars

\* C8: in a read transaction a whole ACK whose block number is not the current
\* block number causes no send and leaves block number, retransmission counter,
\* timeout, round-trip estimate, file position and the flags of the loop alone.
C8_OtherAckIgnored ==
  [][(pc = "read" /\ lastOp' = "recv" /\ IsAck(rx') /\ PktNum(rx') # m_blockNumber)
       => /\ tx' = <<>>
          /\ pc' = "read"
          /\ UNCHANGED <<m_blockNumber, m_numberOfRetransmissions, m_timeout, m_rtt,
                         m_file, m_blockSize, loc>>]_vars

\* C8 witness: the ACK of block 1 has come in again while block 2 is outstanding
C8_Witness ==
  /\ pc = "read"
  /\ lastOp = "recv"
  /\ m_blockNumber = 2
  /\ rx = Datagram(peer, AckBytes(1))
  /\ ~loc.sendData

\* C10: once FILE_NOT_FOUND or, for the mode of a read request, ILLEGAL_OPERATION
\* has been sent, it has been sent once, no DATA has been or is sent and the
\* transaction is over.
C10_TerminalErrors ==
  (request = RRQ /\ cnt.err[FILE_NOT_FOUND] + cnt.err[ILLEGAL_OPERATION] > 0) =>
     /\ cnt.err[FILE_NOT_FOUND] + cnt.err[ILLEGAL_OPERATION] = 1
     /\ ~cnt.data
     /\ pc = "done"

\* the expected payload of the k-th block of an OCTET read of file f: bytes
\* (k-1)*512+1 .. k*512 of the file, as far as the file goes
OctetBlockOf(f, k) ==
  LET off == (k - 1) * DATA_SIZE
  IN [i \in 1 .. Min(DATA_SIZE, FileLen(f) - off) |-> FileByte(f, off + i)]

\* the transaction ended on the ACK of its last block
EndedOnFinalAck == pc = "done" /\ nFirst >= 1 /\ cnt.err[NOT_DEFINED] = 0

\* C5: in an OCTET read of a file that is on the card, the k-th block sent for
\* the first time carries bytes (k-1)*512+1 .. k*512 of the file (so the payloads
\* in order are the file, each block but the last of 512 bytes); a transaction
\* ended by the final ACK has sent |B| div 512 + 1 blocks, the last shorter than
\* 512 bytes and empty when |B| is a multiple of 512.
C5_OctetStream ==
  (request = RRQ /\ m_transferMode = OCTET /\ m_fileName \in DOMAIN disk /\ nFirst >= 1) =>
     /\ IsData(firstTx)
     /\ firstTx.len = 4 + Len(OctetBlockOf(CurFile, nFirst))
     /\ Payload(firstTx) = OctetBlockOf(CurFile, nFirst)
     /\ EndedOnFinalAck =>
          /\ nFirst = (FileLen(CurFile) \div DATA_SIZE) + 1
          /\ firstTx.len - 4 = FileLen(CurFile) % DATA_SIZE

\* C5 witness: a file of 512 bytes went out as a full block and an empty one
C5_Witness ==
  /\ EndedOnFinalAck
  /\ m_transferMode = OCTET
  /\ FileLen(CurFile) = DATA_SIZE
  /\ nFirst = 2
  /\ firstTx.len = 4

\* NETASCII of a byte sequence b from index i on: LF not after CR becomes CR LF,
\* CR not before LF becomes CR NUL, everything else stays
RECURSIVE Canon(_, _)
Canon(b, i) ==
  IF i > Len(b) THEN <<>>
  ELSE (IF b[i] = LF /\ (i = 1 \/ b[i - 1] # CR) THEN <<CR, LF>>
        ELSE IF b[i] = CR /\ (i = Len(b) \/ b[i + 1] # LF) THEN <<CR, NUL>>
        ELSE <<b[i]>>) \o Canon(b, i + 1)

\* NETASCII of a file: its plain bytes, then NETASCII of its tail
CanonLen(f) == f.pad + Len(Canon(f.tail, 1))
CanonByte(f, j) == IF j <= f.pad THEN PlainByte ELSE Canon(f.tail, 1)[j - f.pad]
NetasciiBlockOf(f, k) ==
  LET off == (k - 1) * DATA_SIZE
  IN [i \in 1 .. Min(DATA_SIZE, CanonLen(f) - off) |-> CanonByte(f, off + i)]

\* C9: in a NETASCII read of a file that is on the card, the k-th block sent for
\* the first time carries bytes (k-1)*512+1 .. k*512 of the file's NETASCII form,
\* and a transaction ended by the final ACK has sent all of it.
C9_NetasciiStream ==
  (request = RRQ /\ m_transferMode = NETASCII /\ m_fileName \in DOMAIN disk /\ nFirst >= 1) =>
     /\ IsData(firstTx)
     /\ (nFirst - 1) * DATA_SIZE <= CanonLen(CurFile)
     /\ Payload(firstTx) = NetasciiBlockOf(CurFile, nFirst)
     /\ EndedOnFinalAck => nFirst = (CanonLen(CurFile) \div DATA_SIZE) + 1

\* C6: the k-th block sent for the first time is numbered k, for every
\* k, and so is the counter while that block is outstanding; a re-sent block
\* carries the number of its first transmission and leaves the counter alone.
C6_NumberedFromOne ==
  (request = RRQ /\ nFirst >= 1) =>
     /\ PktNum(firstTx) = nFirst
     /\ m_blockNumber = nFirst
     /\ (lastOp = "timeout" /\ tx # <<>>) => PktNum(tx[1]) = PktNum(firstTx)

\* What the code keeps of the numbering: the k-th block sent for the first time is
\* numbered k modulo 65536, and so is the counter while that block is outstanding;
\* a re-sent block carries the number of its first transmission.
NumberedModulo ==
  (request = RRQ /\ nFirst >= 1) =>
     /\ PktNum(firstTx) = nFirst % WORD
     /\ m_blockNumber = nFirst % WORD
     /\ (lastOp = "timeout" /\ tx # <<>>) => PktNum(tx[1]) = PktNum(firstTx)

\* C6 witness: block 65536, numbered 0, has been sent again
C6_Witness ==
  /\ nFirst = WORD
  /\ m_blockNumber = 0
  /\ lastOp = "timeout"
  /\ IsData(tx[1])
  /\ PktNum(tx[1]) = 0

\* ------------------------------------------------------------ write specifications
\* Write transactions: a request for a new file "g" or for "f", which is on the
\* card, in the three modes, then the client's blocks and the other traffic.
InitWrite == InitWith(FilesOf({0}, 0))

NextWrite ==
  \/ \E pkt \in WriteRequests, openOk \in BOOLEAN : Start(Client, pkt, openOk)
  \/ \E in \in WriteInputs(m_blockNumber), writeOk \in BOOLEAN, beyond \in Beyonds :
       WrRecv(in.src, in.pkt, writeOk, beyond, MaxWriteBlocks)

SpecWrite == InitWrite /\ [][NextWrite]_vars

\* Everything the host can be handed first, and both transactions: requests for
\* "f" (on the card) and "g" (not on it) in the three modes, first packets that
\* are no request, cards that fail to open, read or write.  The traffic of a
\* transaction is the awaited packet, short or full, and one other packet.
FirstPackets == {DataBytes(1, 10), AckBytes(0), <<0, ERROR, 0, 0, 0>>, <<0, 9>>, <<0>>}

ExitReadInputs(b) ==
  {[src |-> Client, pkt |-> AckBytes(b)], [src |-> Client, pkt |-> <<0, ACK>>]}
ExitWriteInputs(b) ==
  {[src |-> Client, pkt |-> DataBytes(b, n)] : n \in {10, DATA_SIZE}} \cup
  {[src |-> Client, pkt |-> DataBytes((b + WORD - 1) % WORD, 10)]}

InitAll == InitWith(FilesOf({0, DATA_SIZE}, 0))

NextAll ==
  \/ \E pkt \in ReadRequests \cup WriteRequests \cup FirstPackets, openOk \in BOOLEAN :
       Start(Client, pkt, openOk)
  \/ \E sendOk \in BOOLEAN, readOk \in BOOLEAN : RdSend(MaxBlocks, sendOk, readOk)
  \/ \E in \in ExitReadInputs(m_blockNumber) : RdRecv(in.src, in.pkt, FirstSample)
  \/ \E sendOk \in BOOLEAN : RdTimeout(sendOk, FALSE)
  \/ \E in \in ExitWriteInputs(m_blockNumber), writeOk \in BOOLEAN :
       WrRecv(in.src, in.pkt, writeOk, NoneBeyond, MaxBlocks)

SpecAll == InitAll /\ [][NextAll]_vars

\* ------------------------------------------------------------ claims on writes
\* C11: a WRQ for a file that is on the card is answered by ERROR(6, "file already
\* exists") to the requester and nothing else, and the transaction is over: no
\* ACK has gone out, no file is open and the card is as it was.
C11_FileExists ==
  [][(lastOp' = "start" /\ request' = WRQ /\ m_fileName' \in DOMAIN disk)
       => /\ Len(tx') = 1
          /\ IsErrorWith(tx'[1], FILE_EXISTS, m_errorFileAlreadyExists)
          /\ tx'[1].dst = rx'.src
          /\ cnt'.ack = 0
          /\ pc' = "done"
          /\ ~m_file'.open
          /\ disk' = disk]_vars

\* C11 witness: the WRQ for "f" has been refused
C11_Witness ==
  /\ request = WRQ
  /\ m_fileName = NameF
  /\ pc = "done"
  /\ cnt.err[FILE_EXISTS] = 1

\* C14: a first packet whose opcode is neither RRQ nor WRQ is answered by one
\* ERROR(ILLEGAL_OPERATION) to its sender and nothing else; no file is opened,
\* the card stays as it was and no transaction is entered.
C14_IllegalFirstOpcode ==
  [][(lastOp' = "start" /\ request' \notin {RRQ, WRQ})
       => /\ Len(tx') = 1
          /\ IsErrorWith(tx'[1], ILLEGAL_OPERATION, m_errorIllegalOperation)
          /\ tx'[1].dst = rx'.src
          /\ pc' = "done"
          /\ m_file' = m_file /\ ~m_file'.open
          /\ disk' = disk]_vars

\* C14 witness: a first DATA packet has been refused
C14_Witness ==
  /\ lastOp = "start"
  /\ request = DATA
  /\ pc = "done"
  /\ cnt.err[ILLEGAL_OPERATION] = 1

\* a step of the write transaction that took a DATA block: wrote it and sent its ACK
TookBlock == pc = "write" /\ lastOp' = "recv" /\ Len(wr'.blocks) = Len(wr.blocks) + 1

\* C12: the file of a write transaction holds the payloads of the accepted DATA
\* blocks, in order, and nothing else.
C12_FileIsPayloads ==
  (request = WRQ /\ m_fileName \in DOMAIN disk /\ wr.acks # <<>>) =>
     disk[m_fileName].tail = wr.payloads

\* C13: the step that takes a DATA block ends the transaction and closes the file
\* exactly when the block's payload has fewer than 512 bytes.
C13_ShortBlockEnds ==
  [][TookBlock => ((pc' = "done" /\ ~m_file'.open) <=> rx'.len - 4 < DATA_SIZE)]_vars

\* C17: in a write transaction whose mode is neither OCTET nor NETASCII the
\* expected DATA block is answered by one ERROR(ILLEGAL_OPERATION) and nothing
\* else, nothing is written, the file is closed and the transaction is over.
C17_IllegalModeEnds ==
  [][(pc = "write" /\ m_transferMode \notin {OCTET, NETASCII} /\ lastOp' = "recv"
        /\ IsData(rx') /\ PktNum(rx') = m_blockNumber)
       => /\ Len(tx') = 1
          /\ IsErrorWith(tx'[1], ILLEGAL_OPERATION, m_errorIllegalOperation)
          /\ disk' = disk
          /\ pc' = "done"
          /\ ~m_file'.open]_vars

C19_ReAck ==
  [][(pc = "write" /\ lastOp' = "recv" /\ rx'.src = peer /\ wr.acks # <<>>) =>
       LET k == wr.acks[Len(wr.acks)]
           again == IF k = 0 THEN PktOp(rx') = WRQ
                    ELSE IsData(rx') /\ PktNum(rx') = k /\ k # m_blockNumber
       IN again => \E i \in DOMAIN tx' : IsAck(tx'[i]) /\ PktNum(tx'[i]) = k]_vars

\* C15: when processRequest has returned, m_file is not open.
C15_NoFileLeftOpen == pc = "done" => ~m_file.open

\* C15 witness: a write transaction has ended on a write that failed after a block
\* was written
C15_Witness ==
  /\ pc = "done"
  /\ request = WRQ
  /\ Len(wr.blocks) >= 1
  /\ cnt.err[ACCESS_VIOLATION] = 1

\* C16: when the read of the file fails, ERROR(ACCESS_VIOLATION) and nothing else
\* goes to the peer, the file is closed and the transaction is over.
C16_ReadFailureEnds ==
  [][lastOp' = "readfail"
       => /\ Len(tx') = 1
          /\ IsErrorWith(tx'[1], ACCESS_VIOLATION, m_errorAccessViolation)
          /\ pc' = "done"
          /\ ~m_file'.open]_vars

\* C20: between two blocks of a NETASCII read at most one of the three carry
\* flags of the translation is set.
C20_OneCarryFlag ==
  (pc = "read" /\ request = RRQ /\ m_transferMode = NETASCII /\ ~loc.sendData) =>
     ~(loc.startNextPacketWithNewLine /\ loc.startNextPacketWithNull)
     /\ ~(loc.startNextPacketWithNewLine /\ loc.dontInsertCarriageReturn)
     /\ ~(loc.startNextPacketWithNull /\ loc.dontInsertCarriageReturn)

\* ------------------------------------------------------------ claims C21..C26
\* C21: in a read transaction m_rtt changes only in the step that accepts the
\* ACK of a block that was never re-sent, which ends the wait for that block
\* (so at most once per block); a received packet changes m_timeout only in
\* that same step; an ACK accepted after a re-send leaves m_rtt and m_timeout
\* as they are; the first transmission of a block clears ignoreTime and a
\* re-send sets it.
C21_SampleOncePerBlock ==
  [][pc = "read" =>
       /\ (m_rtt' # m_rtt \/ (lastOp' = "recv" /\ m_timeout' # m_timeout))
            => /\ lastOp' = "recv"
               /\ m_numberOfRetransmissions = 0
               /\ ~loc.ignoreTime
               /\ ~loc.sendData /\ loc'.sendData
               /\ readWord(udpBuffer', 0) = ACK
               /\ readWord(udpBuffer', 2) = m_blockNumber
               /\ \E s \in Samples : /\ m_rtt' = NewRtt(m_rtt, s)
                                    /\ m_timeout' = NewTimeout(m_rtt')
       /\ (lastOp' = "recv" /\ m_numberOfRetransmissions > 0)
            => m_rtt' = m_rtt /\ m_timeout' = m_timeout
       /\ lastOp' = "send" => ~loc'.ignoreTime /\ m_numberOfRetransmissions' = 0
       /\ lastOp' = "timeout" => loc'.ignoreTime]_vars

\* C21 witness: the ACK of a block that was re-sent has been accepted, after the
\* ACK of an earlier block gave a sample
C21_Witness ==
  /\ request = RRQ
  /\ lastOp = "recv"
  /\ loc.sendData
  /\ loc.ignoreTime
  /\ m_numberOfRetransmissions > 0
  /\ nFirst >= 2
  /\ m_rtt # INITIAL_TIMEOUT * 1000

C23_FirstSendTimeout ==
  (pc = "read" /\ lastOp = "send" /\ m_numberOfRetransmissions = 0) =>
     /\ m_timeout = constrain((2 * m_rtt) \div 1000, TIMEOUT_MIN, TIMEOUT_MAX)
     /\ nFirst = 1 => m_timeout = 2 * INITIAL_TIMEOUT

\* C23 witness: DATA(1) has just gone out for the first time
C23_Witness ==
  /\ pc = "read"
  /\ lastOp = "send"
  /\ nFirst = 1
  /\ m_numberOfRetransmissions = 0
  /\ m_rtt = INITIAL_TIMEOUT * 1000
  /\ IsData(firstTx) /\ PktNum(firstTx) = 1

\* ------------------------------------------------------------ a second request
\* processRequest() has returned and loop() polls checkForPacket() again: the
\* members keep what the transaction left in them, the card and the buffer too.
Again ==
  /\ pc = "done"
  /\ pc' = "idle"
  /\ peer' = [ip |-> 0, port |-> 0]
  /\ request' = 0
  /\ tx' = <<>>
  /\ rx' = NoDatagram
  /\ lastOp' = "init"
  /\ firstTx' = NoPacket
  /\ nFirst' = 0
  /\ ackSeen' = FALSE
  /\ cnt' = NoCount
  /\ wr' = NoWrites
  /\ noise' = 0
  /\ UNCHANGED <<udpBuffer, m_bufferCount, tftpRemote, m_remoteIpAddress, m_remotePort,
                 m_transferId, m_opCode, m_blockNumber, m_blockSize, m_rtt, m_timeout,
                 m_numberOfRetransmissions, m_fileName, m_transferMode, m_file, disk, loc>>

\* requests cut short: after the file name, and after the mode, without the zero
\* byte that ends the field
TruncatedRequests ==
  {<<0, op>> \o NameF : op \in {RRQ, WRQ}} \cup
  {<<0, op>> \o NameG \o <<0>> \o ModeOctetLower : op \in {RRQ, WRQ}}

\* Transactions one after the other on a card with the empty file "f": the first
\* packet is a request cut short or a DATA packet, the traffic the awaited
\* packets in time.  No packet fills the buffer, so every readText() finds its
\* zero byte inside udpBuffer.
InitTrunc == InitWith(FilesOf({0}, 0))

NextTrunc ==
  \/ \E pkt \in TruncatedRequests \cup {DataBytes(1, 10)} : Start(Client, pkt, TRUE)
  \/ RdSend(MaxBlocks, TRUE, TRUE)
  \/ \E in \in ExitReadInputs(m_blockNumber) : RdRecv(in.src, in.pkt, FirstSample)
  \/ \E n \in {0, 10} : WrRecv(Client, DataBytes(m_blockNumber, n), TRUE, NoneBeyond, MaxWriteBlocks)
  \/ Again

SpecTrunc == InitTrunc /\ [][NextTrunc]_vars

\* a request whose file name or mode has no zero byte behind it in the datagram
Truncated(pkt) ==
  /\ Len(pkt) >= 2
  /\ readWord(pkt, 0) \in {RRQ, WRQ}
  /\ Cardinality({i \in 3 .. Len(pkt) : pkt[i] = 0}) < 2

\* C24: a first packet that is an RRQ or WRQ cut short is answered by
\* ERROR(ILLEGAL_OPERATION) to its sender and nothing else, the transaction is
\* over, no file is open, the card is as it was, and file name and mode hold no
\* byte from behind the datagram.
C24_TruncatedRefused ==
  [][(lastOp' = "start" /\ Truncated(rx'.bytes))
       => /\ Len(tx') = 1
          /\ IsErrorWith(tx'[1], ILLEGAL_OPERATION, m_errorIllegalOperation)
          /\ tx'[1].dst = rx'.src
          /\ pc' = "done"
          /\ ~m_file'.open
          /\ disk' = disk
          /\ 2 + Len(m_fileName') + Len(m_transferMode') <= rx'.len]_vars

\* C24 witness: a request cut short in the file name has been taken after an
\* earlier transaction, and the file name is longer than the datagram
C24_Witness ==
  /\ lastOp = "start"
  /\ Truncated(rx.bytes)
  /\ Len(m_fileName) > rx.len
  /\ udpBuffer # ReceiveInto(ZeroBuffer, rx.bytes)

\* ------------------------------------------------------------ termination
\* what may arrive while block b is outstanding, any number of times: its ACK
\* from the client, and the ACK of the block before from the client and from
\* the third party
FloodInputs(b) ==
  {[src |-> Client, pkt |-> AckBytes(b)],
   [src |-> Client, pkt |-> AckBytes((b + WORD - 1) % WORD)],
   [src |-> Stranger, pkt |-> AckBytes((b + WORD - 1) % WORD)]}

\* one iteration of the loop of handleReadRequest with sendData clear:
\* checkForPacket() comes first, the timer is looked at only when it returned
\* false, so the network decides which of the two branches the iteration takes
RdWait ==
  \/ \E in \in FloodInputs(m_blockNumber) : RdPacket(in.src, in.pkt, FirstSample, FALSE)
  \/ RdTimeout(TRUE, FALSE)

\* A read of "f" in octet mode with packets that keep coming.
InitFlood == InitWith(FilesOf({0, DATA_SIZE}, 0))

NextFlood ==
  \/ Start(Client, RequestBytes(RRQ, NameF, ModeOctetLower), TRUE)
  \/ RdSend(MaxBlocks, TRUE, TRUE)
  \/ RdWait

\* the loop runs: an iteration that can be taken is taken
FairFlood == WF_vars(RdSend(MaxBlocks, TRUE, TRUE)) /\ WF_vars(RdWait)

SpecFlood == InitFlood /\ [][NextFlood]_vars /\ FairFlood

\* C25: every read transaction ends, whatever the client and third parties
\* send.
C25_ReadEnds == (pc = "read") ~> (pc = "done")

\* C25 witness: the transaction is waiting for the ACK of a block that it has
\* re-sent, and has just taken a packet that is not that ACK
C25_Witness ==
  /\ pc = "read"
  /\ lastOp = "recv"
  /\ ~loc.sendData
  /\ m_numberOfRetransmissions > 0
  /\ rx.bytes # AckBytes(m_blockNumber)

\* One iteration of the loop of handleWriteRequest with no datagram pending:
\* checkForPacket() returns false and the body of the loop is empty.
WrIdle ==
  /\ pc = "write"
  /\ m_bufferCount' = 0
  /\ tx' = <<>>
  /\ rx' = NoDatagram
  /\ lastOp' = "idle"
  /\ UNCHANGED <<pc, udpBuffer, tftpRemote, m_remoteIpAddress, m_remotePort, m_transferId,
                 m_opCode, m_blockNumber, m_blockSize, m_rtt, m_timeout,
                 m_numberOfRetransmissions, m_fileName, m_transferMode, m_file, disk, loc,
                 peer, request, firstTx, nFirst, ackSeen, cnt, wr, noise>>

\* Write transactions with the traffic of SpecWrite, and a loop that iterates:
\* when no datagram is pending the idle iteration is taken.  Whether a datagram
\* arrives is the peer's choice and under no fairness.
NextWriteFair ==
  \/ \E pkt \in WriteRequests, openOk \in BOOLEAN : Start(Client, pkt, openOk)
  \/ \E in \in WriteInputs(m_blockNumber), writeOk \in BOOLEAN :
       WrRecv(in.src, in.pkt, writeOk, NoneBeyond, MaxWriteBlocks)
  \/ WrIdle

SpecWriteFair == InitWrite /\ [][NextWriteFair]_vars /\ WF_vars(WrIdle)

\* C26: every write transaction that was admitted with ACK(0) ends, whatever
\* the peer does afterwards.
C26_WriteEnds == (pc = "write" /\ wr.acks = <<0>>) ~> (pc = "done")

\* C26 witness: a WRQ was answered by ACK(0) and the loop has iterated with no
\* datagram pending
C26_Witness ==
  /\ pc = "write"
  /\ request = WRQ
  /\ wr.acks = <<0>>
  /\ lastOp = "idle"
  /\ m_bufferCount = 0

====
